---- MODULE Spec2Model ----
(***************************************************************************)
(* Model of metatensor/models/utils/composition.py:                        *)
(*   calculate_composition_weights   (the regularizer escalation loop)     *)
(*   apply_composition_contribution  (the per-species offset)              *)
(*                                                                         *)
(* The regularizer is a Python float, i.e. an IEEE-754 double.  It is kept *)
(* bit-exactly as a 53-bit significand split in two limbs and a binary     *)
(* exponent, so that `regularizer *= 10.0` and `regularizer > 1e5` are     *)
(* computed with the rounding the interpreter applies.                     *)
(***************************************************************************)
EXTENDS Integers, Sequences, FiniteSets, TLC

VARIABLES
    \* ---- calculate_composition_weights
    species_universe,   \* species seen in the datasets (columns of composition_features)
    n_singular,         \* input: number of leading solves that raise _LinAlgError
    then_outcome,       \* input: what the solve after them does ("ok" or "other")
    fit_weights,        \* input: the weights a successful solve yields, one per column
    pc,                 \* position in calculate_composition_weights
    regularizer,        \* the local `regularizer`
    solution,           \* the local `solution` (NoSolution while unbound)
    error,              \* the exception that left the function, if any
    attempts,           \* history: one entry per torch.linalg.solve call
    \* ---- apply_composition_contribution
    atomic_property,    \* argument: the input TensorMap, as its (key, block) items in order
    composition_weights,\* argument: the weight tensor
    apc,                \* position in apply_composition_contribution
    idx,                \* number of items of atomic_property already iterated
    new_keys,           \* the local `new_keys`
    new_blocks,         \* the local `new_blocks`
    result,             \* the returned TensorMap (NoMap while none)
    apply_error,        \* the exception that left the function, if any
    entry_property,     \* history: atomic_property as it was when the call started
    entry_weights       \* history: composition_weights as it was when the call started

solveVars == <<species_universe, n_singular, then_outcome, fit_weights,
               pc, regularizer, solution, error, attempts>>
applyVars == <<atomic_property, composition_weights, apc, idx, new_keys,
               new_blocks, result, apply_error, entry_property, entry_weights>>
vars == <<solveVars, applyVars>>

-----------------------------------------------------------------------------
(* Bounds of the model.                                                     *)

\* species identifiers range over 0..MaxSpecies
MaxSpecies == 2
\* the leading run of singular solves has at most MaxSingular members
MaxSingular == 27
\* an input map holds at most MaxBlocks blocks
MaxBlocks == 2
\* a block's value tensor holds at most MaxEntries entries
MaxEntries == 2

-----------------------------------------------------------------------------
(* IEEE-754 double arithmetic on positive normal numbers.                   *)
(* A number is [hi, lo, e] and denotes (hi * 2^26 + lo) * 2^e with          *)
(* 2^26 <= hi < 2^27 and 0 <= lo < 2^26 (a 53-bit significand).             *)

LoLimb == 2^26
HiLimb == 2^27

\* a > b, for positive normal doubles
Gt(a, b) ==
    \/ a.e > b.e
    \/ a.e = b.e /\ a.hi > b.hi
    \/ a.e = b.e /\ a.hi = b.hi /\ a.lo > b.lo

\* the significand one unit in the last place up, renormalised on overflow
NextUp(r) ==
    IF r.lo + 1 < LoLimb THEN [r EXCEPT !.lo = r.lo + 1]
    ELSE IF r.hi + 1 < HiLimb THEN [r EXCEPT !.hi = r.hi + 1, !.lo = 0]
    ELSE [hi |-> LoLimb, lo |-> 0, e |-> r.e + 1]

\* mutant: the factor is 2.0
Mul10_WrongFactor(r) == [r EXCEPT !.e = r.e + 1]

\* r * 10.0, rounded to nearest, ties to even
Mul10(r) ==
    LET lo10  == r.lo * 10
        hi10  == r.hi * 10 + (lo10 \div LoLimb)
        loP   == lo10 % LoLimb
        \* the exact product has 56 or 57 bits: drop 3 or 4 of them
        drop  == IF hi10 >= 2^30 THEN 4 ELSE 3
        unit  == 2^drop
        kept  == [hi |-> hi10 \div unit,
                  lo |-> ((hi10 % unit) * LoLimb + loP) \div unit,
                  e  |-> r.e + drop]
        rest  == loP % unit
        half  == unit \div 2
    IN  IF rest > half \/ (rest = half /\ kept.lo % 2 = 1)
        THEN NextUp(kept)
        ELSE kept

\* the Python literal 1e-20 (line 44)
RegularizerStart == [hi |-> 99035203, lo |-> 9585187, e |-> -119]
\* the Python literal 1e5 (line 47)
AbortThreshold == [hi |-> 102400000, lo |-> 0, e |-> -36]

\* `while regularizer:` -- a float is true unless it is zero
Truthy(r) == r.hi # 0 \/ r.lo # 0

RECURSIVE Escalated(_)
\* the regularizer after k escalations
Escalated(k) == IF k = 0 THEN RegularizerStart ELSE Mul10(Escalated(k - 1))

RECURSIVE CountFrom(_)
\* how many members of the escalation sequence, from r on, pass the abort test
CountFrom(r) == IF Gt(r, AbortThreshold) THEN 0 ELSE 1 + CountFrom(Mul10(r))
NumRegularizers == CountFrom(RegularizerStart)

-----------------------------------------------------------------------------
(* calculate_composition_weights                                            *)

NoSolution == [bound |-> FALSE]
NoError == "none"

\* What torch.linalg.solve does on the k-th call (k counted from 0): the
\* datasets decide it; the loop only ever observes a run of _LinAlgError
\* followed by one call that returns or raises something else.
SolveOutcome(k) == IF k < n_singular THEN "singular" ELSE then_outcome

\* the species in ascending order: the column order keys_to_properties gives
RECURSIVE SortedSeq(_)
SortedSeq(S) ==
    IF S = {} THEN <<>>
    ELSE LET m == CHOOSE x \in S : \A y \in S : x <= y
         IN  <<m>> \o SortedSeq(S \ {m})

Species == 0..MaxSpecies

\* the values a fitted weight takes in the model
FitValues == {5, 10}

\* the datasets: the species they hold, what the solves do, the weights a
\* successful solve yields (one per column, columns in ascending species order)
Datasets ==
    /\ species_universe \in (SUBSET Species) \ {{}}
    /\ n_singular \in 0..MaxSingular
    /\ then_outcome \in {"ok", "other"}
    /\ fit_weights \in [1..Cardinality(species_universe) -> FitValues]

NoDatasets ==
    /\ species_universe = {}
    /\ n_singular = 0
    /\ then_outcome = "ok"
    /\ fit_weights = <<>>

\* line 44: the state on entry to the loop
SolveStart ==
    /\ pc = "loop"
    /\ regularizer = RegularizerStart
    /\ solution = NoSolution
    /\ error = NoError
    /\ attempts = <<>>

SolveIdle ==
    /\ pc = "idle"
    /\ regularizer = RegularizerStart
    /\ solution = NoSolution
    /\ error = NoError
    /\ attempts = <<>>

UnchangedDatasets == UNCHANGED <<species_universe, n_singular, then_outcome, fit_weights>>

CanSolve ==
    /\ pc = "loop"
    /\ Truthy(regularizer)
    /\ ~Gt(regularizer, AbortThreshold)

Attempt(outcome) == [reg |-> regularizer, outcome |-> outcome]

\* lines 46-52: the abort test at the head of the loop
Abort ==
    /\ pc = "loop"
    /\ Truthy(regularizer)
    /\ Gt(regularizer, AbortThreshold)
    /\ pc' = "raised"
    /\ error' = "RuntimeError"
    /\ UNCHANGED <<regularizer, solution, attempts>>
    /\ UnchangedDatasets
    /\ UNCHANGED applyVars

\* mutant: the break is missing
SolveOk_NoBreak ==
    /\ CanSolve
    /\ SolveOutcome(Len(attempts)) = "ok"
    /\ attempts' = Append(attempts, Attempt("ok"))
    /\ solution' = [bound |-> TRUE, w |-> fit_weights, lambda |-> regularizer]
    /\ pc' = "loop"
    /\ UNCHANGED <<regularizer, error>>
    /\ UnchangedDatasets
    /\ UNCHANGED applyVars

\* lines 53-64 and 68: the solve returns; break; return solution
SolveOk ==
    /\ CanSolve
    /\ SolveOutcome(Len(attempts)) = "ok"
    /\ attempts' = Append(attempts, Attempt("ok"))
    /\ solution' = [bound |-> TRUE, w |-> fit_weights, lambda |-> regularizer]
    /\ pc' = "returned"
    /\ UNCHANGED <<regularizer, error>>
    /\ UnchangedDatasets
    /\ UNCHANGED applyVars

\* mutant: the product is not stored back
SolveSingular_NoEscalation ==
    /\ CanSolve
    /\ SolveOutcome(Len(attempts)) = "singular"
    /\ attempts' = Append(attempts, Attempt("singular"))
    /\ pc' = "loop"
    /\ UNCHANGED <<regularizer, solution, error>>
    /\ UnchangedDatasets
    /\ UNCHANGED applyVars

\* lines 53-66: the solve raises torch._C._LinAlgError; regularizer *= 10.0
SolveSingular ==
    /\ CanSolve
    /\ SolveOutcome(Len(attempts)) = "singular"
    /\ attempts' = Append(attempts, Attempt("singular"))
    /\ regularizer' = Mul10(regularizer)
    /\ pc' = "loop"
    /\ UNCHANGED <<solution, error>>
    /\ UnchangedDatasets
    /\ UNCHANGED applyVars

\* mutant: a bare except retries on every exception
SolveOther_Retried ==
    /\ CanSolve
    /\ SolveOutcome(Len(attempts)) = "other"
    /\ attempts' = Append(attempts, Attempt("other"))
    /\ regularizer' = Mul10(regularizer)
    /\ pc' = "loop"
    /\ UNCHANGED <<solution, error>>
    /\ UnchangedDatasets
    /\ UNCHANGED applyVars

\* lines 53-65: the solve raises an exception the except clause does not name
SolveOther ==
    /\ CanSolve
    /\ SolveOutcome(Len(attempts)) = "other"
    /\ attempts' = Append(attempts, Attempt("other"))
    /\ pc' = "raised"
    /\ error' = "other"
    /\ UNCHANGED <<regularizer, solution>>
    /\ UnchangedDatasets
    /\ UNCHANGED applyVars

-----------------------------------------------------------------------------
(* apply_composition_contribution                                           *)

NoMap == [returned |-> FALSE]

\* the labels of a block: fixed by the species and the number of entries
LabelsOf(axis, s, n) == [axis |-> axis, species |-> s, count |-> n]

\* a TensorBlock: a value tensor (its entries in order) and three label sets
TensorBlock(values, samples, components, properties) ==
    [values |-> values, samples |-> samples,
     components |-> components, properties |-> properties]

BaseValues == {0, 10}

BlocksOf(s) ==
    { [values     |-> [i \in 1..n |-> base + i],
       samples    |-> LabelsOf("samples", s, n),
       components |-> LabelsOf("components", s, n),
       properties |-> LabelsOf("properties", s, n)] :
        n \in 0..MaxEntries, base \in BaseValues }

Item(s, b) == [key |-> s, block |-> b]

KeysOf(m) == [i \in 1..Len(m) |-> m[i].key]
KeySet(m) == {m[i].key : i \in 1..Len(m)}

RECURSIVE MapsOfLen(_)
\* the maps of n blocks: n distinct keys (a TensorMap's keys are unique) in any
\* order, under each a block of that species
MapsOfLen(n) ==
    IF n = 0 THEN {<<>>}
    ELSE UNION { UNION { { Append(m, Item(s, b)) : b \in BlocksOf(s) } :
                         s \in Species \ KeySet(m) } :
                 m \in MapsOfLen(n - 1) }

Maps == UNION {MapsOfLen(n) : n \in 0..MaxBlocks}

\* the values a weight takes in the model
WeightValues == {0, 5}

\* the weight tensors: one dimension, any length up to one past the largest species
WeightVectors == UNION { [1..n -> WeightValues] : n \in 0..(MaxSpecies + 1) }

\* tensor[i] for a one-dimensional tensor: 0-based, negative i counts from the end
InRange(w, i) == -Len(w) <= i /\ i < Len(w)
WeightAt(w, i) == IF i >= 0 THEN w[i + 1] ELSE w[Len(w) + i + 1]

\* mutant: the scalar reaches the first entry only
AddScalar_FirstOnly(values, c) ==
    [i \in 1..Len(values) |-> IF i = 1 THEN values[i] + c ELSE values[i]]

\* block.values + scalar: the scalar is broadcast over every entry
AddScalar(values, c) == [i \in 1..Len(values) |-> values[i] + c]

\* mutant: samples and properties change places
NewBlock_SwappedLabels(new_values, block) ==
    TensorBlock(new_values, block.properties, block.components, block.samples)

\* lines 95-101: the new block takes the labels of the block it comes from
NewBlock(new_values, block) ==
    TensorBlock(new_values, block.samples, block.components, block.properties)

ApplyIdle ==
    /\ atomic_property = <<>>
    /\ composition_weights = <<>>
    /\ apc = "idle"
    /\ idx = 0
    /\ new_keys = <<>>
    /\ new_blocks = <<>>
    /\ result = NoMap
    /\ apply_error = NoError
    /\ entry_property = <<>>
    /\ entry_weights = <<>>

\* lines 89-90: the call with arguments m and w has bound its two empty lists
ApplyStart(m, w) ==
    /\ atomic_property = m
    /\ composition_weights = w
    /\ apc = "loop"
    /\ idx = 0
    /\ new_keys = <<>>
    /\ new_blocks = <<>>
    /\ result = NoMap
    /\ apply_error = NoError
    /\ entry_property = m
    /\ entry_weights = w

UnchangedArguments ==
    UNCHANGED <<atomic_property, composition_weights, entry_property, entry_weights>>

\* mutant: the weight is added in place (block.values += ...)
ApplyIterate_InPlace ==
    /\ apc = "loop"
    /\ idx < Len(atomic_property)
    /\ LET key == atomic_property[idx + 1].key
           block == atomic_property[idx + 1].block
           atomic_species == key
           new_values == AddScalar(block.values,
                                   WeightAt(composition_weights, atomic_species))
       IN  /\ InRange(composition_weights, atomic_species)
           /\ new_keys' = Append(new_keys, atomic_species)
           /\ new_blocks' = Append(new_blocks, NewBlock(new_values, block))
           /\ atomic_property' =
                  [atomic_property EXCEPT ![idx + 1].block.values = new_values]
    /\ idx' = idx + 1
    /\ UNCHANGED <<apc, result, apply_error>>
    /\ UNCHANGED <<composition_weights, entry_property, entry_weights>>
    /\ UNCHANGED solveVars

\* lines 91-102: one iteration of the loop over atomic_property.items()
ApplyIterate ==
    /\ apc = "loop"
    /\ idx < Len(atomic_property)
    /\ LET key == atomic_property[idx + 1].key
           block == atomic_property[idx + 1].block
           atomic_species == key
       IN  /\ InRange(composition_weights, atomic_species)
           /\ new_keys' = Append(new_keys, atomic_species)
           /\ new_blocks' = Append(new_blocks,
                  NewBlock(AddScalar(block.values,
                                     WeightAt(composition_weights, atomic_species)),
                           block))
    /\ idx' = idx + 1
    /\ UNCHANGED <<apc, result, apply_error>>
    /\ UnchangedArguments
    /\ UNCHANGED solveVars

\* mutant: a missing weight counts as zero
ApplyIndexError_Substituted ==
    /\ apc = "loop"
    /\ idx < Len(atomic_property)
    /\ ~InRange(composition_weights, atomic_property[idx + 1].key)
    /\ new_keys' = Append(new_keys, atomic_property[idx + 1].key)
    /\ new_blocks' = Append(new_blocks,
           NewBlock(atomic_property[idx + 1].block.values, atomic_property[idx + 1].block))
    /\ idx' = idx + 1
    /\ UNCHANGED <<apc, result, apply_error>>
    /\ UnchangedArguments
    /\ UNCHANGED solveVars

\* lines 91-94: the key is appended, then indexing the weights raises IndexError
ApplyIndexError ==
    /\ apc = "loop"
    /\ idx < Len(atomic_property)
    /\ ~InRange(composition_weights, atomic_property[idx + 1].key)
    /\ new_keys' = Append(new_keys, atomic_property[idx + 1].key)
    /\ apc' = "raised"
    /\ apply_error' = "IndexError"
    /\ UNCHANGED <<idx, new_blocks, result>>
    /\ UnchangedArguments
    /\ UNCHANGED solveVars

\* the permutation of 1..Len(keys) that lists the keys in ascending order
Ascending(keys) ==
    CHOOSE p \in [1..Len(keys) -> 1..Len(keys)] :
      /\ \A i, j \in 1..Len(keys) : i # j => p[i] # p[j]
      /\ \A i, j \in 1..Len(keys) : i < j => keys[p[i]] <= keys[p[j]]

\* mutant: keys and blocks are put in ascending key order before returning
ApplyReturn_Sorted ==
    /\ apc = "loop"
    /\ idx = Len(atomic_property)
    /\ new_blocks # <<>>
    /\ LET p == Ascending(new_keys)
       IN  result' = [returned |-> TRUE,
                      keys |-> [i \in 1..Len(new_keys) |-> new_keys[p[i]]],
                      blocks |-> [i \in 1..Len(new_keys) |-> new_blocks[p[i]]]]
    /\ apc' = "done"
    /\ UNCHANGED <<idx, new_keys, new_blocks, apply_error>>
    /\ UnchangedArguments
    /\ UNCHANGED solveVars

\* lines 104-111: the keys as collected, the blocks as collected
ApplyReturn ==
    /\ apc = "loop"
    /\ idx = Len(atomic_property)
    /\ new_blocks # <<>>
    /\ result' = [returned |-> TRUE, keys |-> new_keys, blocks |-> new_blocks]
    /\ apc' = "done"
    /\ UNCHANGED <<idx, new_keys, new_blocks, apply_error>>
    /\ UnchangedArguments
    /\ UNCHANGED solveVars

\* line 106: new_blocks[0] of an empty list raises IndexError
ApplyNoBlocks ==
    /\ apc = "loop"
    /\ idx = Len(atomic_property)
    /\ new_blocks = <<>>
    /\ apc' = "raised"
    /\ apply_error' = "IndexError"
    /\ UNCHANGED <<idx, new_keys, new_blocks, result>>
    /\ UnchangedArguments
    /\ UNCHANGED solveVars

\* a caller passes the fitted weights on, with a map over species of the datasets
ApplyFitted ==
    /\ pc = "returned"
    /\ apc = "idle"
    /\ \E m \in Maps :
         /\ KeySet(m) \subseteq species_universe
         /\ atomic_property' = m
         /\ entry_property' = m
    /\ composition_weights' = solution.w
    /\ entry_weights' = solution.w
    /\ apc' = "loop"
    /\ idx' = 0
    /\ new_keys' = <<>>
    /\ new_blocks' = <<>>
    /\ UNCHANGED <<result, apply_error>>
    /\ UNCHANGED solveVars

-----------------------------------------------------------------------------
(* Specifications                                                           *)

InitSolve == Datasets /\ SolveStart /\ ApplyIdle

NextSolve ==
    \/ Abort
    \/ SolveOk
    \/ SolveSingular
    \/ SolveOther

SpecSolve == InitSolve /\ [][NextSolve]_vars
\* the loop is straight-line code: an enabled step is eventually taken
SpecSolveFair == SpecSolve /\ WF_vars(NextSolve)

InitApply ==
    /\ NoDatasets
    /\ SolveIdle
    /\ \E m \in Maps, w \in WeightVectors : ApplyStart(m, w)

NextApply ==
    \/ ApplyIterate
    \/ ApplyIndexError
    \/ ApplyReturn
    \/ ApplyNoBlocks

SpecApply == InitApply /\ [][NextApply]_vars

NextFitApply ==
    \/ NextSolve
    \/ ApplyFitted
    \/ NextApply

SpecFitApply == InitSolve /\ [][NextFitApply]_vars

-----------------------------------------------------------------------------
(* Properties of calculate_composition_weights                              *)

\* b is a * 10 rounded to a double: the exact product, hi10 * 2^26 + loP, has
\* d = 3 or 4 bits more than a significand, and b's significand times 2^d is
\* within half a unit in the last place (2^(d-1)) of it
TimesTen(a, b) ==
    \E d \in {3, 4} :
      /\ b.e = a.e + d
      /\ LET lo10 == a.lo * 10
             hi10 == a.hi * 10 + (lo10 \div LoLimb)
             loP  == lo10 % LoLimb
             dHi  == b.hi * 2^d - hi10
         IN  /\ -(2^d) < dHi /\ dHi <= 1
             /\ LET diff == dHi * LoLimb + (b.lo * 2^d - loP)
                IN  -(2^(d - 1)) <= diff /\ diff <= 2^(d - 1)

Solving == attempts' # attempts

\* C1: every solve is attempted at the current regularizer, which is 1e-20 for
\* the first one and never above 1e5; the regularizer changes in no step but
\* one whose solve raised the singularity error, and such a step replaces it
\* by ten times its value (as a double), which is strictly greater.
C1_RegularizerSequence ==
    [][ /\ Solving =>
             /\ Len(attempts') = Len(attempts) + 1
             /\ SubSeq(attempts', 1, Len(attempts)) = attempts
             /\ attempts'[Len(attempts')].reg = regularizer
             /\ ~Gt(regularizer, AbortThreshold)
             /\ (attempts = <<>> => regularizer = RegularizerStart)
        /\ (Solving /\ attempts'[Len(attempts')].outcome = "singular") =>
             /\ TimesTen(regularizer, regularizer')
             /\ Gt(regularizer', regularizer)
        /\ regularizer' # regularizer =>
             /\ Solving
             /\ attempts'[Len(attempts')].outcome = "singular"
      ]_vars

\* the escalation has run from 1e-20 until the abort test stops it
C1_Witness ==
    /\ pc = "loop"
    /\ Len(attempts) = NumRegularizers
    /\ Len(attempts) > 20
    /\ Gt(regularizer, AbortThreshold)

AlwaysSingular == n_singular >= NumRegularizers

\* C2: when the solve raises the singularity error at every regularizer the
\* abort test lets through, the function ends, for good, having raised the
\* RuntimeError and bound no solution.
C2_AbortsWhenAlwaysSingular ==
    AlwaysSingular =>
        <>[](pc = "raised" /\ error = "RuntimeError" /\ solution = NoSolution)

C2_Witness ==
    /\ AlwaysSingular
    /\ pc = "raised"
    /\ error = "RuntimeError"
    /\ Len(attempts) = NumRegularizers
    /\ \A k \in 1..Len(attempts) : attempts[k].outcome = "singular"

\* the index of the first solve that does not raise the singularity error
FirstNonSingular == CHOOSE k \in 0..(MaxSingular + 1) :
    /\ SolveOutcome(k) # "singular"
    /\ \A j \in 0..(k - 1) : SolveOutcome(j) = "singular"

\* C3: a returned solution is the one solved at the first regularizer of the
\* sequence whose solve does not fail; every earlier regularizer of the
\* sequence was attempted, in order, and failed; a successful solve is the last
\* attempt, and the regularizer is still the one it used.
C3_FirstSuccessReturned ==
    /\ \A k \in 1..Len(attempts) :
         attempts[k].outcome = "ok" => (k = Len(attempts) /\ pc = "returned")
    /\ pc = "returned" =>
         LET n == Len(attempts) IN
         /\ n = FirstNonSingular + 1
         /\ \A k \in 1..n : attempts[k].reg = Escalated(k - 1)
         /\ \A k \in 1..(n - 1) : attempts[k].outcome = "singular"
         /\ attempts[n].outcome = "ok"
         /\ solution = [bound |-> TRUE, w |-> fit_weights, lambda |-> attempts[n].reg]
         /\ regularizer = attempts[n].reg
         /\ error = NoError

C3_Witness ==
    /\ pc = "returned"
    /\ Len(attempts) >= 3
    /\ Gt(solution.lambda, RegularizerStart)

\* C10: a solve that raises anything but the singularity error is the last
\* attempt: its exception leaves the function, the regularizer is the one that
\* solve used, and no solution is bound; every attempt followed by another one
\* raised the singularity error.
C10_OtherFailurePropagates ==
    /\ \A k \in 1..Len(attempts) :
         attempts[k].outcome = "other" =>
           /\ k = Len(attempts)
           /\ pc = "raised"
           /\ error = "other"
           /\ regularizer = attempts[k].reg
           /\ solution = NoSolution
    /\ \A k \in 1..(Len(attempts) - 1) : attempts[k].outcome = "singular"

C10_Witness ==
    /\ pc = "raised"
    /\ error = "other"
    /\ Len(attempts) >= 3
    /\ attempts[Len(attempts)].outcome = "other"

-----------------------------------------------------------------------------
(* Properties of apply_composition_contribution                             *)

\* the block stored under species s in map m
BlockOf(m, s) == m[CHOOSE i \in 1..Len(m) : m[i].key = s].block

SameLabels(a, b) ==
    /\ a.samples = b.samples
    /\ a.components = b.components
    /\ a.properties = b.properties

\* the weight the datasets' fit gave to species s: column k of the feature
\* matrix is the k-th species in ascending order (lines 35-40)
FittedWeight(s) ==
    LET columns == SortedSeq(species_universe)
    IN  fit_weights[CHOOSE k \in 1..Len(columns) : columns[k] = s]

\* C4: when the fitted weights are passed on, every block of the returned map
\* holds the input block's values plus the weight fitted for the block's species.
C4_FittedWeightAdded ==
    apc = "done" =>
        \A i \in 1..Len(result.keys) :
            LET s == result.keys[i]
                before == BlockOf(entry_property, s).values
            IN  result.blocks[i].values =
                    [j \in 1..Len(before) |-> before[j] + FittedWeight(s)]

\* C5: a returned map has, for every input block, a block whose every entry is
\* the input entry plus the weight at the block's species (0-based index into
\* the weight tensor); with all-zero weights the values are the input's.
C5_Additivity ==
    apc = "done" =>
        /\ Len(result.blocks) = Len(entry_property)
        /\ \A i \in 1..Len(entry_property) :
            LET s == entry_property[i].key
                before == entry_property[i].block.values
                after == result.blocks[CHOOSE k \in 1..Len(result.keys) :
                                           result.keys[k] = s].values
            IN  /\ s >= 0 /\ s < Len(entry_weights)
                /\ Len(after) = Len(before)
                /\ \A j \in 1..Len(before) : after[j] = before[j] + entry_weights[s + 1]
                /\ (\A k \in 1..Len(entry_weights) : entry_weights[k] = 0) => after = before

C5_Witness ==
    /\ apc = "done"
    /\ Len(result.blocks) = 2
    /\ \E i \in 1..2 :
         /\ Len(result.blocks[i].values) = 2
         /\ result.blocks[i].values # entry_property[i].block.values

\* C6: a returned map has one key and one block per input block, its keys are
\* the input's keys, each once, and the block under a key has the samples,
\* components and properties of the input block under that key.
C6_KeysAndLabelsKept ==
    apc = "done" =>
        /\ Len(result.keys) = Len(entry_property)
        /\ Len(result.blocks) = Len(entry_property)
        /\ {result.keys[i] : i \in 1..Len(result.keys)} = KeySet(entry_property)
        /\ \A i, j \in 1..Len(result.keys) : result.keys[i] = result.keys[j] => i = j
        /\ \A i \in 1..Len(result.keys) :
             SameLabels(result.blocks[i], BlockOf(entry_property, result.keys[i]))

C6_Witness ==
    /\ apc = "done"
    /\ Len(result.keys) = 2
    /\ result.blocks[1].samples # result.blocks[2].samples
    /\ result.blocks[1].values # entry_property[1].block.values

KeysAscending(keys) == \A i, j \in 1..Len(keys) : i < j => keys[i] < keys[j]

\* C7 as stated: the keys of a returned map are in ascending order, and each is
\* paired with the block of its own species.
C7_KeysSorted ==
    apc = "done" =>
        /\ KeysAscending(result.keys)
        /\ \A i \in 1..Len(result.keys) :
             SameLabels(result.blocks[i], BlockOf(entry_property, result.keys[i]))

\* C7 as amended: the keys of a returned map are the input's keys in the
\* input's iteration order, and the i-th block comes from the i-th input block.
C7_KeysInInputOrder ==
    apc = "done" =>
        /\ result.keys = KeysOf(entry_property)
        /\ Len(result.blocks) = Len(entry_property)
        /\ \A i \in 1..Len(entry_property) :
             /\ SameLabels(result.blocks[i], entry_property[i].block)
             /\ result.blocks[i].values =
                  AddScalar(entry_property[i].block.values,
                            entry_weights[entry_property[i].key + 1])

C7_Witness ==
    /\ apc = "done"
    /\ Len(result.keys) = 2
    /\ result.keys[1] > result.keys[2]

ForeignAt(i) == ~(0 <= entry_property[i].key /\ entry_property[i].key < Len(entry_weights))
HasForeignKey == \E i \in 1..Len(entry_property) : ForeignAt(i)
FirstForeign == CHOOSE i \in 1..Len(entry_property) :
    ForeignAt(i) /\ \A j \in 1..(i - 1) : ~ForeignAt(j)

\* C8: when some key of the input lies outside the weight tensor, the call
\* returns no map: the loop stops at the first such key with IndexError, no
\* block is built for that key, and the arguments are as they were.
C8_ForeignKeyRaises ==
    HasForeignKey =>
        /\ apc # "done"
        /\ result = NoMap
        /\ idx < FirstForeign
        /\ Len(new_blocks) < FirstForeign
        /\ apc # "loop" =>
             /\ apc = "raised"
             /\ apply_error = "IndexError"
             /\ idx = FirstForeign - 1
        /\ atomic_property = entry_property
        /\ composition_weights = entry_weights

C8_Witness ==
    /\ HasForeignKey
    /\ apc = "raised"
    /\ apply_error = "IndexError"
    /\ FirstForeign = 2
    /\ Len(new_blocks) = 1
    /\ entry_weights # <<>>

\* C9: no step of the call changes the input map or the weight tensor.
C9_ArgumentsNotMutated ==
    [][ /\ atomic_property' = atomic_property
        /\ composition_weights' = composition_weights ]_vars

C9_Witness ==
    /\ apc = "done"
    /\ atomic_property = entry_property
    /\ \E i \in 1..Len(result.blocks) :
         /\ result.blocks[i].values # atomic_property[i].block.values
         /\ SameLabels(result.blocks[i], atomic_property[i].block)

====
